---- MODULE Spec2Model ----
(***************************************************************************)
(* Model of src/src/process_xml.py: the transformation of an IOF result    *)
(* list (an ElementTree) into a report with split times and the gap of     *)
(* every split to the best split of its control.                           *)
(*                                                                         *)
(* Representation.                                                         *)
(*   - A text is a sequence of one-character strings.  ElementTree never   *)
(*     yields the empty string as the .text of an element (an element      *)
(*     without character data has .text None), so None == <<>> stands for  *)
(*     Python's None wherever a text is expected.                          *)
(*   - An optional integer (time, split_time, position, split_gap) is      *)
(*     None or Some(n) == <<n>>.                                           *)
(*   - An element is a record [tag, attrib, text, children]; attrib is a   *)
(*     set of <<key, value>> pairs; the result of find() is None or        *)
(*     <<element>>.  All tags live in the one namespace `ns`.              *)
(*   - A function of the program that can raise returns Ok(v) or Err(e),   *)
(*     e the name of the Python exception.                                 *)
(***************************************************************************)
EXTENDS Integers, Sequences, FiniteSets, TLC

\* ------------------------------------------------------------------ bounds
\* most PersonResult elements in a generated document
MaxPersons == 2
\* most SplitTime elements in a generated document (all competitors together)
MaxPunches == 2
\* most SplitTime elements of the competitor of a one-competitor document
MaxSoloPunches == 3

\* ------------------------------------------------------------- Python values
None == <<>>
Some(v) == <<v>>
Ok(v) == [err |-> "", val |-> v]
Err(e) == [err |-> e, val |-> None]

OK == <<"O", "K">>
DSQ == <<"D", "S", "Q">>
Missing == <<"M", "i", "s", "s", "i", "n", "g">>

Digits == <<"0", "1", "2", "3", "4", "5", "6", "7", "8", "9">>
IsDigit(c) == \E d \in 1..10 : Digits[d] = c
DigitVal(c) == (CHOOSE d \in 1..10 : Digits[d] = c) - 1

RECURSIVE DecVal(_)
DecVal(s) == IF s = <<>> THEN 0
             ELSE DecVal(SubSeq(s, 1, Len(s) - 1)) * 10 + DigitVal(s[Len(s)])

AllDigits(s) == Len(s) > 0 /\ \A i \in 1..Len(s) : IsDigit(s[i])

\* int(text): TypeError on None, ValueError on a text that is no decimal
\* numeral (an optional sign followed by digits).
IntOf(text) ==
  IF text = None THEN Err("TypeError")
  ELSE IF AllDigits(text) THEN Ok(DecVal(text))
  ELSE IF text[1] = "-" /\ AllDigits(Tail(text)) THEN Ok(0 - DecVal(Tail(text)))
  ELSE IF text[1] = "+" /\ AllDigits(Tail(text)) THEN Ok(DecVal(Tail(text)))
  ELSE Err("ValueError")

\* ------------------------------------------------------------- ElementTree
El(tag, text, children) ==
  [tag |-> tag, attrib |-> {}, text |-> text, children |-> children]
ElA(tag, attrib, text, children) ==
  [tag |-> tag, attrib |-> attrib, text |-> text, children |-> children]

\* element.get(key, default)
Get(el, key, default) ==
  IF \E a \in el.attrib : a[1] = key
  THEN (CHOOSE a \in el.attrib : a[1] = key)[2]
  ELSE default

\* the descendants of el in document order (el itself excluded)
RECURSIVE Descendants(_)
RECURSIVE DescendantsOfAll(_)
Descendants(el) == DescendantsOfAll(el.children)
DescendantsOfAll(els) ==
  IF els = <<>> THEN <<>>
  ELSE <<Head(els)>> \o Descendants(Head(els)) \o DescendantsOfAll(Tail(els))

SelectTag(els, tag) == SelectSeq(els, LAMBDA e : e.tag = tag)
FirstOf(els) == IF els = <<>> THEN None ELSE <<Head(els)>>

\* el.find("ns:tag"): the first child with the tag
FindChild(el, tag) == FirstOf(SelectTag(el.children, tag))
\* el.find(".//ns:tag"): the first descendant with the tag, at any depth
FindDesc(el, tag) == FirstOf(SelectTag(Descendants(el), tag))
\* el.findall(".//ns:tag")
FindAllDesc(el, tag) == SelectTag(Descendants(el), tag)

\* found.text, for the result of a find(): AttributeError on None
TextOf(found) ==
  IF found = None THEN Err("AttributeError") ELSE Ok(found[1].text)

\* ------------------------------------------------------ _extract_event_data
\* lines 15-21.  Every lookup is a descendant search (".//"); a find() that
\* yields None makes the following .find or .text raise AttributeError; a
\* text of None is returned as it is.
extract_event_data(root) ==
  LET event == FindDesc(root, "Event") IN
  IF event = None THEN Err("AttributeError") ELSE
  LET name == TextOf(FindDesc(event[1], "Name")) IN
  IF name.err # "" THEN name ELSE
  LET date == TextOf(FindDesc(event[1], "Date")) IN
  IF date.err # "" THEN date ELSE
  LET class_result == FindDesc(root, "ClassResult") IN
  IF class_result = None THEN Err("AttributeError") ELSE
  LET class_name == TextOf(FindDesc(class_result[1], "Name")) IN
  IF class_name.err # "" THEN class_name ELSE
  Ok([name |-> name.val, class |-> class_name.val, date |-> date.val])

\* ----------------------------------------------- _compute_split_information
\* lines 42-48: the time of one SplitTime element; None when its status
\* attribute is "Missing", else the integer in its Time child.
PunchTime(split) ==
  LET status == Get(split, "status", None) IN
  IF status = Missing THEN Ok(None)
  ELSE LET text == TextOf(FindChild(split, "Time")) IN
       IF text.err # "" THEN text
       ELSE LET n == IntOf(text.val) IN
            IF n.err # "" THEN n ELSE Ok(Some(n.val))

\* a variant of lines 50-53 that measures from the race start after a
\* missing punch
SplitTimeFromStart(previous_time, time) ==
  IF time = None THEN None
  ELSE Some(time[1] - (IF previous_time = None THEN 0 ELSE previous_time[1]))

\* lines 50-53
SplitTimeOf(previous_time, time) ==
  IF previous_time # None /\ time # None
  THEN Some(time[1] - previous_time[1])
  ELSE None

\* lines 41-62: the loop body for the elements not yet visited
RECURSIVE SplitLoop(_, _, _)
SplitLoop(split_elements, previous_time, splits) ==
  IF split_elements = <<>> THEN Ok(splits) ELSE
  LET split == Head(split_elements)
      control_code == TextOf(FindChild(split, "ControlCode"))
  IN
  IF control_code.err # "" THEN control_code ELSE
  LET time == PunchTime(split) IN
  IF time.err # "" THEN time ELSE
  SplitLoop(Tail(split_elements), time.val,
            Append(splits, [control_code |-> control_code.val,
                            time |-> time.val,
                            split_time |-> SplitTimeOf(previous_time, time.val)]))

\* lines 38-64
compute_split_information(person_result) ==
  SplitLoop(FindAllDesc(person_result, "SplitTime"), Some(0), <<>>)

\* --------------------------------------------------- _extract_person_result
\* str() of a text inside an f-string
Str(text) == IF text = None THEN <<"N", "o", "n", "e">> ELSE text

\* a variant of lines 98-101 that reads the Position whenever there is one
PositionOfAnyStatus(status, result) ==
  LET found == FindChild(result, "Position") IN
  IF found = None THEN Ok(None)
  ELSE LET n == IntOf(found[1].text) IN
       IF n.err # "" THEN n ELSE Ok(Some(n.val))

\* lines 98-101
PositionOf(status, result) ==
  IF status = OK
  THEN LET text == TextOf(FindChild(result, "Position")) IN
       IF text.err # "" THEN text
       ELSE LET n == IntOf(text.val) IN
            IF n.err # "" THEN n ELSE Ok(Some(n.val))
  ELSE Ok(None)

\* line 102: the first Time element below the Result, at any depth
TotalTimeOf(result) ==
  LET text == TextOf(FindDesc(result, "Time")) IN
  IF text.err # "" THEN text ELSE IntOf(text.val)

\* lines 84-106
extract_person_result(person_result) ==
  LET name == FindDesc(person_result, "Name") IN
  IF name = None THEN Err("AttributeError") ELSE
  LET family_name == TextOf(FindChild(name[1], "Family")) IN
  IF family_name.err # "" THEN family_name ELSE
  LET given_name == TextOf(FindChild(name[1], "Given")) IN
  IF given_name.err # "" THEN given_name ELSE
  LET organisation == FindDesc(person_result, "Organisation") IN
  IF organisation = None THEN Err("AttributeError") ELSE
  LET club == TextOf(FindChild(organisation[1], "Name")) IN
  IF club.err # "" THEN club ELSE
  LET result == FindDesc(person_result, "Result") IN
  IF result = None THEN Err("AttributeError") ELSE
  LET status == TextOf(FindDesc(result[1], "Status")) IN
  IF status.err # "" THEN status ELSE
  LET position == PositionOf(status.val, result[1]) IN
  IF position.err # "" THEN position ELSE
  LET total_time == TotalTimeOf(result[1]) IN
  IF total_time.err # "" THEN total_time ELSE
  LET splits == compute_split_information(person_result) IN
  IF splits.err # "" THEN splits ELSE
  Ok([name |-> Str(given_name.val) \o <<" ">> \o Str(family_name.val),
      club |-> club.val,
      status |-> status.val,
      position |-> position.val,
      total_time |-> total_time.val,
      splits |-> splits.val])

\* ------------------------------------------------ _compute_best_split_times
\* a variant of lines 139-147 that keeps the first split time of a control
BestUpdateFirst(best_split_times, split) ==
  IF split.split_time = None \/ split.control_code \in DOMAIN best_split_times
  THEN best_split_times
  ELSE [c \in DOMAIN best_split_times \cup {split.control_code} |->
          IF c = split.control_code THEN split.split_time[1]
          ELSE best_split_times[c]]

\* lines 139-147: one record of one competitor
BestUpdate(best_split_times, split) ==
  LET control_code == split.control_code
      split_time == split.split_time
  IN
  IF split_time = None THEN best_split_times
  ELSE IF control_code \notin DOMAIN best_split_times
  THEN [c \in DOMAIN best_split_times \cup {control_code} |->
          IF c = control_code THEN split_time[1] ELSE best_split_times[c]]
  ELSE IF split_time[1] < best_split_times[control_code]
  THEN [best_split_times EXCEPT ![control_code] = split_time[1]]
  ELSE best_split_times

\* ------------------------------------------------------ _add_split_analysis
\* The quotient of line 167 is a float; it is kept as the pair
\* <<split_gap * 100, best_split_time>> of its numerator and denominator.
PercentageGap(split_gap, best_split_time) ==
  IF best_split_time = 0 THEN Err("ZeroDivisionError")
  ELSE Ok(Some(<<split_gap * 100, best_split_time>>))

\* a variant of lines 158-170 with the operands of line 166 exchanged
AnnotateSplitExchanged(split, best_split_times) ==
  IF split.control_code \notin DOMAIN best_split_times THEN Err("KeyError") ELSE
  LET best_split_time == best_split_times[split.control_code] IN
  IF split.split_time = None
  THEN Ok([control_code |-> split.control_code, time |-> split.time,
           split_time |-> split.split_time,
           split_gap |-> None, percentage_gap |-> None])
  ELSE IF best_split_time = 0 THEN Err("ZeroDivisionError")
  ELSE Ok([control_code |-> split.control_code, time |-> split.time,
           split_time |-> split.split_time,
           split_gap |-> Some(best_split_time - split.split_time[1]),
           percentage_gap |->
             Some(<<(best_split_time - split.split_time[1]) * 100,
                    best_split_time>>)])

\* lines 158-170: one record; the lookup of line 160 comes before the test
\* of line 162.
AnnotateSplit(split, best_split_times) ==
  LET control_code == split.control_code
      split_time == split.split_time
  IN
  IF control_code \notin DOMAIN best_split_times THEN Err("KeyError") ELSE
  LET best_split_time == best_split_times[control_code] IN
  IF split_time = None
  THEN Ok([control_code |-> split.control_code, time |-> split.time,
           split_time |-> split.split_time,
           split_gap |-> None, percentage_gap |-> None])
  ELSE LET split_gap == split_time[1] - best_split_time
           percentage_gap == PercentageGap(split_gap, best_split_time)
       IN
       IF percentage_gap.err # "" THEN percentage_gap
       ELSE Ok([control_code |-> split.control_code, time |-> split.time,
                split_time |-> split.split_time,
                split_gap |-> Some(split_gap),
                percentage_gap |-> percentage_gap.val])

\* -------------------------------------------------------------- process_xml
\* a variant of line 189 that takes the least total time
WinningTimeMin(result_list) ==
  IF result_list = <<>> THEN Err("IndexError")
  ELSE Ok(CHOOSE t \in {result_list[k].total_time : k \in 1..Len(result_list)} :
            \A k \in 1..Len(result_list) : t <= result_list[k].total_time)

\* a variant of line 189 that answers 0 for an empty result list
WinningTimeOrZero(result_list) ==
  IF result_list = <<>> THEN Ok(0)
  ELSE Ok(result_list[1].total_time)

\* line 189: result_list[0]["total_time"]
WinningTime(result_list) ==
  IF result_list = <<>> THEN Err("IndexError")
  ELSE Ok(result_list[1].total_time)

\* ---------------------------------------------------------------- documents
\* The documents the transformation is run on.  `omit` names the elements
\* (or texts) of the schema of the IOF result list left out of a document.
Opt(present, el) == IF present THEN <<el>> ELSE <<>>

Controls == {<<"3", "1">>, <<"3", "2">>}
TimeTexts == {<<"0">>, <<"3">>, <<"5">>}

\* a SplitTime element; time is None (no Time child) or Some(text)
PunchEl(control_code, status, time) ==
  ElA("SplitTime",
      IF status = None THEN {} ELSE {<<"status", status>>},
      None,
      Opt(control_code # None, El("ControlCode", control_code, <<>>))
        \o (IF time = None THEN <<>> ELSE <<El("Time", time[1], <<>>)>>))

\* recorded punches, and missing punches that still carry a Time
Punches ==
  {PunchEl(c, None, Some(t)) : c \in Controls, t \in TimeTexts}
    \cup {PunchEl(c, Missing, Some(<<"5">>)) : c \in Controls}

\* punches off the schema: a missing punch without Time, a recorded punch
\* without Time, with a Time without text, with a Time that is no number,
\* a punch with another status, a punch without ControlCode
OddPunches ==
  {PunchEl(<<"3", "1">>, Missing, None),
   PunchEl(<<"3", "1">>, None, None),
   PunchEl(<<"3", "1">>, None, Some(None)),
   PunchEl(<<"3", "1">>, None, Some(<<"x">>)),
   PunchEl(<<"3", "1">>, None, Some(<<"-", "4">>)),
   PunchEl(<<"3", "1">>, <<"A", "d", "d">>, Some(<<"3">>)),
   PunchEl(None, None, Some(<<"3">>))}

\* hdr: the Status text, the Position text (None: no Position element) and
\* the text of the total Time of the Result
Headers ==
  [status : {OK, DSQ, None}, position : {None, Some(<<"1">>)},
   time : {<<"7">>, <<"9">>}]

\* competitor k of a result list in placing order: the later, the slower
\* (k = 1 excepted, so that the first is not the fastest)
DefaultHeader(k) ==
  [status |-> OK, position |-> Some(<<Digits[(k % 9) + 1]>>),
   time |-> <<"2", Digits[IF k = 1 THEN 10 ELSE (k % 9) + 1]>>]

PersonResultEl(k, hdr, punches, omit) ==
  El("PersonResult", None,
     Opt("Person" \notin omit,
         El("Person", None,
            Opt("Name" \notin omit,
                El("Name", None,
                   Opt("Family" \notin omit,
                       El("Family", <<"F", Digits[(k % 9) + 1]>>, <<>>))
                     \o Opt("Given" \notin omit,
                            El("Given", <<"G">>, <<>>))))))
       \o Opt("Organisation" \notin omit,
              El("Organisation", None,
                 Opt("OrganisationName" \notin omit,
                     El("Name", <<"C">>, <<>>))))
       \o Opt("Result" \notin omit,
              El("Result", None,
                 Opt("Status" \notin omit, El("Status", hdr.status, <<>>))
                   \o (IF hdr.position = None THEN <<>>
                       ELSE <<El("Position", hdr.position[1], <<>>)>>)
                   \o Opt("Time" \notin omit, El("Time", hdr.time, <<>>))
                   \o punches)))

ResultListEl(persons, omit) ==
  El("ResultList", None,
     Opt("Event" \notin omit,
         El("Event", None,
            Opt("EventName" \notin omit,
                El("Name", IF "EventNameText" \in omit THEN None ELSE <<"E">>,
                   <<>>))
              \o Opt("EventDate" \notin omit,
                     El("Date",
                        IF "EventDateText" \in omit THEN None ELSE <<"D">>,
                        <<>>))))
       \o Opt("ClassResult" \notin omit,
              El("ClassResult", None,
                 Opt("ClassName" \notin omit,
                     El("Name",
                        IF "ClassNameText" \in omit THEN None ELSE <<"H">>,
                        <<>>))
                   \o persons)))

\* the ways to deal a sequence of m punches out to n competitors in order
Cuts(n, m) ==
  {c \in [0..n -> 0..m] :
     c[0] = 0 /\ c[n] = m /\ \A k \in 1..n : c[k - 1] <= c[k]}

\* a well-formed document of n competitors, the punches `flat` dealt out to
\* them by the cut c
SplitDoc(n, flat, c) ==
  ResultListEl([k \in 1..n |->
                  PersonResultEl(k, DefaultHeader(k),
                                 SubSeq(flat, c[k - 1] + 1, c[k]), {})], {})

\* up to MaxPersons competitors with one recorded punch each and any header
OnePunch == <<PunchEl(<<"3", "1">>, None, Some(<<"3">>))>>

HeaderDoc(n, hdrs) ==
  ResultListEl([k \in 1..n |-> PersonResultEl(k, hdrs[k], OnePunch, {})], {})

\* one competitor with an element left out or with a punch off the schema,
\* alone or behind a well-formed competitor
PersonOmissions ==
  {"Person", "Name", "Family", "Given", "Organisation", "OrganisationName",
   "Result", "Status", "Time"}

BadPersons ==
  {PersonResultEl(2, h, punches, {o}) :
     h \in {DefaultHeader(2), [DefaultHeader(2) EXCEPT !.position = None]},
     punches \in {<<>>, OnePunch}, o \in PersonOmissions}
    \cup {PersonResultEl(2, DefaultHeader(2), <<x>>, {}) : x \in OddPunches}
    \cup {PersonResultEl(2, [DefaultHeader(2) EXCEPT !.position = pos],
                         OnePunch, {}) :
            pos \in {None, Some(None), Some(<<"x">>)}}
    \cup {PersonResultEl(2, [DefaultHeader(2) EXCEPT !.time = t],
                         OnePunch, {}) :
            t \in {None, <<"x">>, <<"+", "7">>}}

MalformedDocs ==
  {ResultListEl(<<bad>>, {}) : bad \in BadPersons}
    \cup {ResultListEl(<<PersonResultEl(1, DefaultHeader(1), OnePunch, {}),
                         bad>>, {}) : bad \in BadPersons}

\* documents with a part of the event or class description left out, with
\* no competitor or with one
EventOmissions ==
  {"Event", "EventName", "EventDate", "ClassResult", "ClassName",
   "EventNameText", "EventDateText", "ClassNameText"}

EventDocs ==
  {ResultListEl(persons, {o}) :
     persons \in {<<>>, <<PersonResultEl(1, DefaultHeader(1), OnePunch, {})>>},
     o \in EventOmissions}


\* -------------------------------------------------------------------- state
VARIABLES
  doc,               \* root: the parsed document (line 178)
  pc,                \* the statement of process_xml being executed
  event_data,        \* line 181: None before, then Some(dict)
  result_list,       \* line 182, annotated in place by line 184
  best_split_times,  \* line 183
  p,                 \* the competitor a loop is at (1-based)
  s,                 \* the split record of competitor p a loop is at
  report,            \* the value returned (line 186), None before
  error              \* the exception process_xml ended with, "" if none

vars == <<doc, pc, event_data, result_list, best_split_times, p, s, report,
          error>>

EmptyDict == [c \in {} |-> 0]

\* root.findall(".//ns:PersonResult") (line 124)
PersonResults == FindAllDesc(doc, "PersonResult")

Init ==
  /\ \/ \E n \in 0..MaxPersons, m \in 0..MaxPunches :
          \E c \in Cuts(n, m), flat \in [1..m -> Punches] :
            doc = SplitDoc(n, flat, c)
     \/ \E m \in 0..MaxSoloPunches : \E flat \in [1..m -> Punches] :
          doc = SplitDoc(1, flat, [k \in 0..1 |-> k * m])
     \/ \E n \in 1..MaxPersons : \E hdrs \in [1..n -> Headers] :
          doc = HeaderDoc(n, hdrs)
     \/ doc \in MalformedDocs
     \/ doc \in EventDocs
  /\ pc = "event_data"
  /\ event_data = None
  /\ result_list = <<>>
  /\ best_split_times = EmptyDict
  /\ p = 1
  /\ s = 1
  /\ report = None
  /\ error = ""

Raise(e) ==
  /\ pc' = "error"
  /\ error' = e

\* line 181
ExtractEventData ==
  /\ pc = "event_data"
  /\ LET r == extract_event_data(doc) IN
     IF r.err # ""
     THEN Raise(r.err) /\ UNCHANGED event_data
     ELSE event_data' = Some(r.val) /\ pc' = "result_list" /\ UNCHANGED error
  /\ UNCHANGED <<doc, result_list, best_split_times, p, s, report>>

\* lines 124-126: one PersonResult element
ExtractPersonResult ==
  /\ pc = "result_list"
  /\ p <= Len(PersonResults)
  /\ LET r == extract_person_result(PersonResults[p]) IN
     IF r.err # ""
     THEN Raise(r.err) /\ UNCHANGED <<result_list, p>>
     ELSE /\ result_list' = Append(result_list, r.val)
          /\ p' = p + 1
          /\ UNCHANGED <<pc, error>>
  /\ UNCHANGED <<doc, event_data, best_split_times, s, report>>

\* line 128, and the call of line 183
ResultListDone ==
  /\ pc = "result_list"
  /\ p > Len(PersonResults)
  /\ pc' = "best"
  /\ p' = 1
  /\ s' = 1
  /\ UNCHANGED <<doc, event_data, result_list, best_split_times, report, error>>

\* lines 138-147: one split record of competitor p
BestSplit ==
  /\ pc = "best"
  /\ p <= Len(result_list)
  /\ s <= Len(result_list[p].splits)
  /\ best_split_times' = BestUpdate(best_split_times, result_list[p].splits[s])
  /\ s' = s + 1
  /\ UNCHANGED <<doc, pc, event_data, result_list, p, report, error>>

\* line 137: the next competitor
BestNextPerson ==
  /\ pc = "best"
  /\ p <= Len(result_list)
  /\ s > Len(result_list[p].splits)
  /\ p' = p + 1
  /\ s' = 1
  /\ UNCHANGED <<doc, pc, event_data, result_list, best_split_times, report,
                 error>>

\* line 149, and the call of line 184
BestDone ==
  /\ pc = "best"
  /\ p > Len(result_list)
  /\ pc' = "analysis"
  /\ p' = 1
  /\ s' = 1
  /\ UNCHANGED <<doc, event_data, result_list, best_split_times, report, error>>

\* lines 157-170: one split record of competitor p, annotated in place
AddSplitAnalysis ==
  /\ pc = "analysis"
  /\ p <= Len(result_list)
  /\ s <= Len(result_list[p].splits)
  /\ LET r == AnnotateSplit(result_list[p].splits[s], best_split_times) IN
     IF r.err # ""
     THEN Raise(r.err) /\ UNCHANGED <<result_list, s>>
     ELSE /\ result_list' = [result_list EXCEPT ![p].splits[s] = r.val]
          /\ s' = s + 1
          /\ UNCHANGED <<pc, error>>
  /\ UNCHANGED <<doc, event_data, best_split_times, p, report>>

\* line 156: the next competitor
AnalysisNextPerson ==
  /\ pc = "analysis"
  /\ p <= Len(result_list)
  /\ s > Len(result_list[p].splits)
  /\ p' = p + 1
  /\ s' = 1
  /\ UNCHANGED <<doc, pc, event_data, result_list, best_split_times, report,
                 error>>

\* the return of _add_split_analysis
AnalysisDone ==
  /\ pc = "analysis"
  /\ p > Len(result_list)
  /\ pc' = "return"
  /\ UNCHANGED <<doc, event_data, result_list, best_split_times, p, s, report,
                 error>>

\* lines 186-190
Return ==
  /\ pc = "return"
  /\ LET winning_time == WinningTime(result_list) IN
     IF winning_time.err # ""
     THEN Raise(winning_time.err) /\ UNCHANGED report
     ELSE /\ report' = Some([event_data |-> event_data[1],
                             results |-> result_list,
                             winning_time |-> winning_time.val])
          /\ pc' = "done"
          /\ UNCHANGED error
  /\ UNCHANGED <<doc, event_data, result_list, best_split_times, p, s>>

Next ==
  \/ ExtractEventData
  \/ ExtractPersonResult
  \/ ResultListDone
  \/ BestSplit
  \/ BestNextPerson
  \/ BestDone
  \/ AddSplitAnalysis
  \/ AnalysisNextPerson
  \/ AnalysisDone
  \/ Return

Spec == Init /\ [][Next]_vars

\* ------------------------------------------------------------------- claims
Finished == pc \in {"done", "error"}

\* _compute_best_split_times has returned
BestComputed ==
  \/ pc \in {"analysis", "return", "done"}
  \/ pc = "error" /\ error \in {"KeyError", "ZeroDivisionError", "IndexError"}

\* the positions <<competitor, split>> of the records of a result list
Records(results) ==
  {<<k, i>> \in (1..Len(results)) \X (1..(MaxPunches + MaxSoloPunches)) :
     i <= Len(results[k].splits)}

\* the present split times recorded at control c
SplitTimesAt(results, c) ==
  {results[r[1]].splits[r[2]].split_time[1] :
     r \in {q \in Records(results) :
              /\ results[q[1]].splits[q[2]].control_code = c
              /\ results[q[1]].splits[q[2]].split_time # None}}

ControlsOf(results) ==
  {results[r[1]].splits[r[2]].control_code : r \in Records(results)}

Annotated(split) == "split_gap" \in DOMAIN split

\* C1: the annotation pass never fails with a lookup error, and every
\* record with an absent split_time it has annotated carries an absent
\* split_gap and an absent percentage gap.
C1_AbsentSplitsAnnotatedAbsent ==
  /\ ~(pc = "error" /\ error = "KeyError")
  /\ \A r \in Records(result_list) :
       LET split == result_list[r[1]].splits[r[2]] IN
       (Annotated(split) /\ split.split_time = None) =>
         (split.split_gap = None /\ split.percentage_gap = None)

\* C2: in a returned report every record with a present split_time has
\* split_gap = split_time - (the least split_time of its control over all
\* competitors), and split_gap >= 0.
C2_SplitGapIsGapToBest ==
  pc = "done" =>
    LET results == report[1].results IN
    \A r \in Records(results) :
      LET split == results[r[1]].splits[r[2]] IN
      split.split_time # None =>
        /\ split.split_gap # None
        /\ split.split_gap[1] >= 0
        /\ split.split_gap[1] = split.split_time[1] -
                                  best_split_times[split.control_code]
        /\ \A t \in SplitTimesAt(results, split.control_code) :
             split.split_gap[1] >= split.split_time[1] - t

\* a report of two competitors with a negative split time and a positive gap
C2_Witness ==
  /\ pc = "done"
  /\ Len(report[1].results) >= 2
  /\ \E r \in Records(report[1].results) :
       LET split == report[1].results[r[1]].splits[r[2]] IN
       split.split_time # None /\ split.split_time[1] < 0
  /\ \E r \in Records(report[1].results) :
       LET split == report[1].results[r[1]].splits[r[2]] IN
       split.split_gap # None /\ split.split_gap[1] > 0

\* C3: once computed, best_split_times has exactly the controls with a
\* present split_time as keys, and maps each to the least of them.
C3_BestIsAchievedMinimum ==
  BestComputed =>
    /\ DOMAIN best_split_times =
         {c \in ControlsOf(result_list) : SplitTimesAt(result_list, c) # {}}
    /\ \A c \in DOMAIN best_split_times :
         /\ best_split_times[c] \in SplitTimesAt(result_list, c)
         /\ \A t \in SplitTimesAt(result_list, c) : best_split_times[c] <= t

\* a control with two different split times, and one with none
C3_Witness ==
  /\ BestComputed
  /\ \E c \in DOMAIN best_split_times :
       Cardinality(SplitTimesAt(result_list, c)) >= 2
  /\ \E c \in ControlsOf(result_list) : c \notin DOMAIN best_split_times

\* C4: the records of an extracted competitor are those of its SplitTime
\* elements in document order; time is absent exactly for status "Missing";
\* the first split_time is the first time; a later split_time is present
\* exactly when its time and the time before are, and is their difference.
C4_SplitTimes ==
  \A k \in 1..Len(result_list) :
    LET els == FindAllDesc(PersonResults[k], "SplitTime")
        splits == result_list[k].splits
    IN
    /\ Len(splits) = Len(els)
    /\ \A i \in 1..Len(splits) :
         /\ splits[i].control_code = FindChild(els[i], "ControlCode")[1].text
         /\ splits[i].time = None <=> Get(els[i], "status", None) = Missing
         /\ splits[i].time # None =>
              splits[i].time[1] = IntOf(FindChild(els[i], "Time")[1].text).val
         /\ i = 1 => splits[i].split_time = splits[i].time
         /\ i > 1 =>
              /\ splits[i].split_time # None <=>
                   (splits[i].time # None /\ splits[i - 1].time # None)
              /\ splits[i].split_time # None =>
                   splits[i].split_time[1] =
                     splits[i].time[1] - splits[i - 1].time[1]

\* a missing punch that carries a Time, the next split_time absent, the one
\* after present
C4_Witness ==
  \E k \in 1..Len(result_list) :
    LET els == FindAllDesc(PersonResults[k], "SplitTime")
        splits == result_list[k].splits
    IN
    /\ Len(splits) >= 3
    /\ splits[1].time = None
    /\ FindChild(els[1], "Time") # None
    /\ splits[2].time # None
    /\ splits[2].split_time = None
    /\ splits[3].split_time # None

\* C5: whenever the best split time of a control is 0, process_xml ends
\* with a division error and returns no report.
C5_ZeroBestIsDivisionError ==
  (Finished /\ \E c \in DOMAIN best_split_times : best_split_times[c] = 0) =>
    (pc = "error" /\ error = "ZeroDivisionError" /\ report = None)

\* the required sub-elements of a PersonResult, each at its place in the
\* schema: Person/Name/{Family, Given}, Organisation/Name,
\* Result/{Status, Time}
ChildOf(found, tag) == IF found = None THEN None ELSE FindChild(found[1], tag)

MissingRequired(person_result) ==
  LET name == ChildOf(FindChild(person_result, "Person"), "Name")
      organisation == FindChild(person_result, "Organisation")
      result == FindChild(person_result, "Result")
  IN
  \/ name = None
  \/ ChildOf(name, "Family") = None
  \/ ChildOf(name, "Given") = None
  \/ organisation = None
  \/ ChildOf(organisation, "Name") = None
  \/ result = None
  \/ ChildOf(result, "Status") = None
  \/ ChildOf(result, "Time") = None

\* C6: no record is produced for a PersonResult with a required
\* sub-element missing (and so no report for its document).
C6_MissingSubElementFails ==
  \A k \in 1..Len(result_list) : ~MissingRequired(PersonResults[k])

\* the event and class description, each element at its place in the
\* schema and with a text
TextAbsent(found) == found = None \/ found[1].text = None

EventPartAbsent(root) ==
  LET event == FindChild(root, "Event")
      class_result == FindChild(root, "ClassResult")
  IN
  \/ event = None
  \/ TextAbsent(ChildOf(event, "Name"))
  \/ TextAbsent(ChildOf(event, "Date"))
  \/ class_result = None
  \/ TextAbsent(ChildOf(class_result, "Name"))

\* C7: no metadata is returned for a document in which the Event, its Name
\* or Date, the ClassResult or its Name, or one of their texts is absent.
C7_AbsentEventPartFails ==
  event_data # None => ~EventPartAbsent(doc)

\* C8: in a returned report a competitor has a position exactly when its
\* status is "OK".
C8_PositionIffOK ==
  pc = "done" =>
    \A k \in 1..Len(report[1].results) :
      report[1].results[k].position # None <=>
        report[1].results[k].status = OK

\* a report with a competitor that is not OK and has a Position element
C8_Witness ==
  /\ pc = "done"
  /\ \E k \in 1..Len(report[1].results) :
       /\ report[1].results[k].status = DSQ
       /\ FindDesc(PersonResults[k], "Position") # None

\* C9: a returned report lists the competitors in document order, one per
\* PersonResult, and its winning_time is the total_time of the first.
C9_DocumentOrderAndWinningTime ==
  pc = "done" =>
    LET results == report[1].results IN
    /\ Len(results) = Len(PersonResults)
    /\ \A k \in 1..Len(results) :
         LET name == FindDesc(PersonResults[k], "Name")[1] IN
         results[k].name = Str(FindChild(name, "Given")[1].text) \o <<" ">>
                             \o Str(FindChild(name, "Family")[1].text)
    /\ report[1].winning_time = results[1].total_time

\* a report whose second competitor has a lower total_time than its first
C9_Witness ==
  /\ pc = "done"
  /\ Len(report[1].results) >= 2
  /\ report[1].results[2].total_time < report[1].results[1].total_time
  /\ report[1].results[2].name # report[1].results[1].name

\* C10: a report is returned only for a document with a competitor; with
\* valid event metadata and no competitor process_xml runs every stage on
\* the empty list and ends with an index error and no report.
C10_NoCompetitorIsIndexError ==
  /\ pc = "done" => Len(PersonResults) >= 1
  /\ (Len(PersonResults) = 0 /\ extract_event_data(doc).err = "") =>
       /\ pc # "done" /\ report = None
       /\ error \in {"", "IndexError"}
       /\ Finished =>
            /\ error = "IndexError"
            /\ event_data # None
            /\ result_list = <<>>
            /\ DOMAIN best_split_times = {}

\* the index error of a document without competitors
C10_Witness ==
  /\ pc = "error"
  /\ error = "IndexError"
  /\ Len(PersonResults) = 0
  /\ event_data # None

====
